---- MODULE Spec2Model ----
(***************************************************************************)
(* The decay / degradation engine of The Entropic Archival System:         *)
(* SimulationProvider (src/src/contexts/SimulationContext.tsx) with its    *)
(* controls (SimulationControls.tsx), the item ingestion of IngestData.tsx,*)
(* the alerts of AlertContext.tsx, the baseline comparison of              *)
(* BaselinesCompare.tsx and the row-level policies of the database         *)
(* migration.                                                              *)
(*                                                                         *)
(* processDecayEvent, resetSimulation and runComparison are async          *)
(* functions: every await is a point where other handlers, and other       *)
(* calls, can run.  Each action below is one database request of a call    *)
(* together with the synchronous code that runs when the request resolves. *)
(***************************************************************************)
EXTENDS Integers, Sequences, FiniteSets, TLC

\* ---------------------------------------------------------------- bounds
MaxItems == 2
MaxStarts == 3
MaxCycles == 2
\* calls of processDecayEvent in the runs whose calls do not overlap and
\* that are not followed to the last year
MaxSerialStarts == 4
\* calls of runComparison
MaxRuns == 2

\* sizes typed into the ingestion form
Sizes == {90, 1000, 1000000}
\* the valuations computed at ingestion: relevance, uniqueness and
\* reconstructability, which give the semantic scores 50 and 80
Valuations ==
  { [relevance |-> 50, uniqueness |-> 50, reconstructability |-> 50],
    [relevance |-> 80, uniqueness |-> 80, reconstructability |-> 80] }
\* two valuations of which the one with the lower semantic score (54 and 70)
\* has the higher relevance
ReorderValuations ==
  { [relevance |-> 80, uniqueness |-> 40, reconstructability |-> 32],
    [relevance |-> 50, uniqueness |-> 80, reconstructability |-> 88] }
\* positions of the sliders of the Settings page, in hundredths
SliderPositions == {1, 8}
\* positions that give the relevance nearly all the weight
ReorderPositions == {1, 40}
\* sizes of small items typed into the ingestion form
SmallSizes == {1, 90}
\* start_capacity_kb of the owner's settings row as fetchSettings reads it:
\* the 1000000 that initializeSimulation and the column default write, and a
\* row of a smaller archive
StartCapacities == {527, 1000000}
\* a settings row whose capacity the next decay brings to 0
ExhaustedCapacities == {1}

\* ------------------------------------------------------ program constants
total_years == 60
decay_percent == 5
decay_interval_years == 2

VARIABLES settings, isRunning, db_settings, archive_items, decay_events,
          degradation_logs, alerts, cycles, started,
          reset, stepIgnored, caller, baseline_results, comparison,
          weights, valuation_weights

vars == <<settings, isRunning, db_settings, archive_items, decay_events,
          degradation_logs, alerts, cycles, started,
          reset, stepIgnored, caller, baseline_results, comparison,
          weights, valuation_weights>>

\* the call of resetSimulation, the clicks on the Step button and the
\* caller of processDecayEvent as SpecButtons follows them, and the state of
\* the Baselines page, and the weights of the Settings page with the stored
\* row of valuation_weights
others == <<reset, stepIgnored, caller, baseline_results, comparison,
            weights, valuation_weights>>

\* ----------------------------------------------------------------- stages
Stages == <<"FULL", "COMPRESSED", "SUMMARIZED", "MINIMAL", "DELETED">>

StageRank(s) == CHOOSE k \in 1..Len(Stages) : Stages[k] = s

\* --------------------------------------------------- row-level policies
\* the (table, command) pairs for which the migration creates a policy;
\* a command without a policy affects no row and reports no error
Policies ==
  { <<"simulation_settings", "select">>, <<"simulation_settings", "insert">>,
    <<"simulation_settings", "update">>, <<"simulation_settings", "delete">>,
    <<"archive_items", "select">>, <<"archive_items", "insert">>,
    <<"archive_items", "update">>, <<"archive_items", "delete">>,
    <<"decay_events", "select">>, <<"decay_events", "insert">>,
    <<"degradation_logs", "select">>, <<"degradation_logs", "insert">>,
    <<"baseline_results", "select">>, <<"baseline_results", "insert">>,
    <<"baseline_results", "delete">>,
    <<"alerts", "select">>, <<"alerts", "insert">>, <<"alerts", "update">>,
    <<"alerts", "delete">>,
    <<"valuation_weights", "select">>, <<"valuation_weights", "insert">>,
    <<"valuation_weights", "update">> }

Allowed(table, command) == <<table, command>> \in Policies

\* ------------------------------------------------------------ arithmetic
RECURSIVE Pow2Floor(_)
\* the largest power of two that is <= q, for q >= 1
Pow2Floor(q) == IF q < 2 THEN 1 ELSE 2 * Pow2Floor(q \div 2)

\* Math.floor(n * 0.7) in IEEE-754 double arithmetic.  The double nearest
\* to 0.7 lies 0.4 * 2^-53 below 0.7, so when 0.7 n is an integer q whose
\* significand exceeds 1.75 the product rounds to the double below q and
\* the floor is q - 1 (90 * 0.7 = 62.99999999999999).
MathFloorTimes07(n) ==
  LET q == (7 * n) \div 10
  IN  IF n > 0 /\ n % 10 = 0 /\ 4 * q > 7 * Pow2Floor(q) THEN q - 1 ELSE q

\* Math.floor(n * 0.3): the double nearest to 0.3 lies 0.2 * 2^-54 below
\* 0.3, too little for the product to round below an integer
MathFloorTimes03(n) == (3 * n) \div 10

\* Math.floor(n * 0.1): the double nearest to 0.1 lies above 0.1
MathFloorTimes01(n) == n \div 10

\* Math.floor(capacityBefore * (1 - decay_percent / 100)) for decay_percent
\* = 5: 1 - 0.05 is the double nearest to 0.95, 0.5 * 2^-53 below 0.95, and
\* the product never rounds below an integer
CapacityAfterFromStart(s) ==
  (s.start_capacity_kb * (100 - decay_percent)) \div 100

CapacityAfter(s) ==
  (s.current_capacity_kb * (100 - decay_percent)) \div 100

\* ------------------------------------------------- sequences of records
RECURSIVE SumSizes(_)
\* items.reduce((sum, item) => sum + (item.current_size_kb || 0), 0)
SumSizes(items) ==
  IF items = <<>> THEN 0
  ELSE Head(items).current_size_kb + SumSizes(Tail(items))

\* the orders in which the rows with the given ids can be listed
Orders(ids) ==
  { o \in [1..Cardinality(ids) -> ids] :
      \A j, k \in 1..Cardinality(ids) : j # k => o[j] # o[k] }

\* ------------------------------------------------ the degradation switch
\* newStage of the switch on prevStage
NextStage(prevStage) ==
  CASE prevStage = "FULL" -> "COMPRESSED"
    [] prevStage = "COMPRESSED" -> "SUMMARIZED"
    [] prevStage = "SUMMARIZED" -> "MINIMAL"
    [] prevStage = "MINIMAL" -> "DELETED"
    [] OTHER -> prevStage

\* newSize of the switch on prevStage
NewSize(prevStage, size) ==
  CASE prevStage = "FULL" -> MathFloorTimes07(size)
    [] prevStage = "COMPRESSED" -> MathFloorTimes03(size)
    [] prevStage = "SUMMARIZED" -> MathFloorTimes01(size)
    [] prevStage = "MINIMAL" -> 0
    [] OTHER -> size

\* ------------------------------------------------------------- alerts
\* a ratio currentStorage / capacityAfter * 100 compared with a percentage;
\* a zero capacity gives Infinity, which exceeds every percentage
PressureAbove(storage, capacity, percent) ==
  IF capacity = 0 THEN storage > 0 ELSE storage * 100 > percent * capacity

\* the storage_pressure alert raised when the loop is entered
PressureAlerts(c) ==
  IF PressureAbove(c.currentStorage, c.capacityAfter, 80)
  THEN << [alertType |-> "storage_pressure",
           severity |-> IF PressureAbove(c.currentStorage, c.capacityAfter, 100)
                        THEN "critical" ELSE "warning",
           itemId |-> 0, targetStage |-> "none", semanticScore |-> 0,
           simulatedYear |-> c.newYear] >>
  ELSE <<>>

\* the alert raised for one item of the loop before its update is sent
ItemAlerts(c, item) ==
  LET newStage == NextStage(item.stage)
      severity == IF item.semantic_score > 70
                  THEN (IF newStage = "DELETED" THEN "critical" ELSE "warning")
                  ELSE (IF newStage = "DELETED" THEN "warning" ELSE "info")
      isHighValue == item.semantic_score >= 80
      alertType == IF newStage = "DELETED" THEN "item_deleted"
                   ELSE IF isHighValue THEN "high_value_risk"
                   ELSE "item_degraded"
  IN  IF newStage # item.stage /\ (isHighValue \/ newStage = "DELETED")
      THEN << [alertType |-> alertType, severity |-> severity,
               itemId |-> item.id, targetStage |-> newStage,
               semanticScore |-> item.semantic_score,
               simulatedYear |-> c.newYear] >>
      ELSE <<>>

\* addAlert for each alert of new: a row of the alerts table, with the
\* call that raised it
AddAlerts(rows, new, id) ==
  IF Allowed("alerts", "insert")
  THEN rows \cup { [call |-> id, alert |-> new[k]] : k \in 1..Len(new) }
  ELSE rows

\* ------------------------------------------------------------ the loop
LoopContinuesWithoutBreak(c) == c.idx <= Len(c.items)

\* for (const item of sortedItems) { if (currentStorage <= capacityAfter) break;
LoopContinues(c) ==
  c.idx <= Len(c.items) /\ c.currentStorage > c.capacityAfter

NextIndexSecondPass(c) == IF c.idx = Len(c.items) THEN 1 ELSE c.idx + 1

\* the iteration of for ... of moves to the next element of sortedItems
NextIndex(c) == c.idx + 1

IterateFirstOnly(c) ==
  IF LoopContinues(c) /\ c.idx <= 1 THEN [c EXCEPT !.pc = "update_item"]
  ELSE [c EXCEPT !.pc = "update_event"]

\* the synchronous code that runs up to the next await of the loop: the
\* break test, the switch, the alert of the item; or the end of the loop
Iterate(c) ==
  IF LoopContinues(c) THEN [c EXCEPT !.pc = "update_item"]
  ELSE [c EXCEPT !.pc = "update_event"]

IterateAlerts(c) ==
  IF LoopContinues(c) THEN ItemAlerts(c, c.items[c.idx]) ELSE <<>>

SortedDescending(rows) ==
  \A j, k \in 1..Len(rows) :
     j < k => rows[j].semantic_score >= rows[k].semantic_score

\* [...items].sort((a, b) => (a.semantic_score || 0) - (b.semantic_score || 0))
\* applied to the rows as the store returned them, ordered by
\* semantic_score: rows of equal score keep the order of the store
SortedAscending(rows) ==
  \A j, k \in 1..Len(rows) :
     j < k => rows[j].semantic_score <= rows[k].semantic_score

\* ------------------------------------------------- IEEE-754 doubles
\* The weights are JavaScript numbers.  A positive double is m * 2^e with
\* 2^52 <= m < 2^53; m is held in two digits of base 2^27, so that every
\* intermediate value fits the integers of the model checker.
Base == 134217728

Zero == [hi |-> 0, lo |-> 0]
One == [hi |-> 0, lo |-> 1]
Two52 == [hi |-> 33554432, lo |-> 0]
Two53 == [hi |-> 67108864, lo |-> 0]

BigLess(a, b) == a.hi < b.hi \/ (a.hi = b.hi /\ a.lo < b.lo)

BigAdd(a, b) ==
  [hi |-> a.hi + b.hi + (a.lo + b.lo) \div Base, lo |-> (a.lo + b.lo) % Base]

\* a - b for a >= b
BigSub(a, b) ==
  IF a.lo >= b.lo THEN [hi |-> a.hi - b.hi, lo |-> a.lo - b.lo]
  ELSE [hi |-> a.hi - b.hi - 1, lo |-> a.lo + Base - b.lo]

\* a * t for 0 <= t <= 16
BigTimes(a, t) ==
  [hi |-> a.hi * t + (a.lo * t) \div Base, lo |-> (a.lo * t) % Base]

BigOdd(a) == a.lo % 2 = 1

\* q shifted right by n bits, for q < 2^58; guard is the last bit shifted
\* out and sticky tells whether a bit shifted out before it was set
ShiftRight(q, n) ==
  IF n = 0 THEN [q |-> q, guard |-> FALSE, sticky |-> FALSE]
  ELSE IF n <= 27
  THEN LET p == 2 ^ n
           half == 2 ^ (n - 1)
           lost == q.lo % p
       IN  [q |-> [hi |-> q.hi \div p,
                   lo |-> q.lo \div p + (q.hi % p) * (Base \div p)],
            guard |-> lost \div half = 1,
            sticky |-> lost % half # 0]
  ELSE IF n <= 57
  THEN LET p == 2 ^ (n - 27)
           half == 2 ^ (n - 28)
           lost == q.hi % p
       IN  [q |-> [hi |-> 0, lo |-> q.hi \div p],
            guard |-> lost \div half = 1,
            sticky |-> lost % half # 0 \/ q.lo # 0]
  ELSE [q |-> Zero,
        guard |-> n = 58 /\ q.hi >= 2 ^ 30,
        sticky |-> IF n = 58 THEN q.hi % (2 ^ 30) # 0 \/ q.lo # 0
                   ELSE q # Zero]

\* the double nearest to (q + f) * 2^e, ties to even, for 2^52 <= q < 2^58
\* and a fraction 0 <= f < 1 that is at least 1/2 iff guard, and differs
\* from 0 and from 1/2 iff sticky
RoundToDouble(q, e, guard, sticky) ==
  LET k == CHOOSE j \in 0..5 :
             q.hi \div (2 ^ j) >= Two52.hi /\ q.hi \div (2 ^ j) < Two53.hi
      s == ShiftRight(q, k)
      g == IF k = 0 THEN guard ELSE s.guard
      st == IF k = 0 THEN sticky ELSE s.sticky \/ guard \/ sticky
      r == IF g /\ (st \/ BigOdd(s.q)) THEN BigAdd(s.q, One) ELSE s.q
  IN  IF r = Two53 THEN [m |-> Two52, e |-> e + k + 1]
      ELSE [m |-> r, e |-> e + k]

\* the double of a whole number 0 < n < 2^26
FromInt(n) ==
  LET len == CHOOSE j \in 1..26 : 2 ^ (j - 1) <= n /\ n < 2 ^ j
  IN  [m |-> [hi |-> n * 2 ^ (26 - len), lo |-> 0], e |-> len - 53]

Two55 == [hi |-> 268435456, lo |-> 0]

RECURSIVE DivDigits(_, _, _)
\* the quotient of r by d, for r < d, continued after the digits q by
\* hexadecimal digits until it has 56 bits
DivDigits(r, d, q) ==
  IF ~BigLess(q, Two55) THEN [q |-> q, sticky |-> r # Zero]
  ELSE LET r16 == BigTimes(r, 16)
           t == CHOOSE j \in 0..15 :
                  /\ ~BigLess(r16, BigTimes(d, j))
                  /\ BigLess(r16, BigTimes(d, j + 1))
       IN  DivDigits(BigSub(r16, BigTimes(d, t)), d,
                     BigAdd(BigTimes(q, 16), [hi |-> 0, lo |-> t]))

\* x / y: the quotient of the significands, which is between 1/2 and 2,
\* to 14 hexadecimal digits after the point, then rounded
FDiv(x, y) ==
  LET first == IF BigLess(x.m, y.m) THEN 0 ELSE 1
      b == DivDigits(BigSub(x.m, BigTimes(y.m, first)), y.m,
                     [hi |-> 0, lo |-> first])
  IN  RoundToDouble(b.q, x.e - y.e - 56, FALSE, b.sticky)

\* x + y
FAdd(x, y) ==
  LET big == IF x.e >= y.e THEN x ELSE y
      small == IF x.e >= y.e THEN y ELSE x
      s == ShiftRight(BigTimes(small.m, 8), big.e - small.e)
  IN  RoundToDouble(BigAdd(BigTimes(big.m, 8), s.q), big.e - 3,
                    s.guard, s.sticky)

\* v / 100 for the position v of a slider
FromSlider(v) == FDiv(FromInt(v), FromInt(100))

\* the sum of the three weights, added from left to right
Total(w) ==
  FAdd(FAdd(w.weight_relevance, w.weight_uniqueness),
       w.weight_reconstructability)

\* normalized of handleSaveWeights: each weight divided by the total
Normalize(w) ==
  LET total == Total(w)
  IN  [weight_relevance |-> FDiv(w.weight_relevance, total),
       weight_uniqueness |-> FDiv(w.weight_uniqueness, total),
       weight_reconstructability |->
          FDiv(w.weight_reconstructability, total)]

\* the weights of the Settings page for the positions of its sliders
SliderWeights(p) ==
  [weight_relevance |-> FromSlider(p.weight_relevance),
   weight_uniqueness |-> FromSlider(p.weight_uniqueness),
   weight_reconstructability |-> FromSlider(p.weight_reconstructability)]

\* a double 0 < x < 4 stored in a numeric(5,2) column, in hundredths: the
\* request carries the shortest decimal that reads back as x, and the
\* column rounds it to two decimals, halves away from zero.  The shortest
\* decimal is the half-way point itself when x is the double nearest to it.
Numeric52(x) ==
  LET m25 == BigAdd(BigAdd(BigTimes(x.m, 16), BigTimes(x.m, 8)), x.m)
      s == ShiftRight(m25, 0 - (x.e + 2))
      below == s.q.lo
  IN  IF s.guard \/ x = FDiv(FromInt(2 * below + 1), FromInt(200))
      THEN below + 1 ELSE below

WeightFields ==
  {"weight_relevance", "weight_uniqueness", "weight_reconstructability"}

\* the row of valuation_weights that stores the weights w, in hundredths
StoredWeights(w) == [f \in WeightFields |-> Numeric52(w[f])]

\* Math.round((relevance * 0.4 + uniqueness * 0.35 +
\*             reconstructability * 0.25) * 100) / 100
\* for valuations whose score is a whole number
calculateSemanticScore(v) ==
  (40 * v.relevance + 35 * v.uniqueness + 25 * v.reconstructability) \div 100

\* ---------------------------------------------------------------- Init
\* the state after initializeSimulation and fetchSettings, no item ingested;
\* the Settings page shows its default weights, which are also the row that
\* initializeSimulation inserts
InitWith(capacities) ==
  /\ \E c \in capacities :
       /\ settings = [start_capacity_kb |-> c, current_capacity_kb |-> c,
                      current_year |-> 0]
       /\ db_settings = [current_capacity_kb |-> c, current_year |-> 0,
                         is_running |-> FALSE]
  /\ isRunning = FALSE
  /\ archive_items = <<>>
  /\ decay_events = [k \in {} |-> 0]
  /\ degradation_logs = {}
  /\ alerts = {}
  /\ cycles = [k \in {} |-> 0]
  /\ started = 0
  /\ reset = [pc |-> "idle", items |-> <<>>, idx |-> 0]
  /\ stepIgnored = FALSE
  /\ caller = "none"
  /\ baseline_results = {}
  /\ comparison = [pc |-> "idle", run |-> 0, totalItems |-> 0]
  /\ weights = SliderWeights([weight_relevance |-> 40,
                              weight_uniqueness |-> 35,
                              weight_reconstructability |-> 25])
  /\ valuation_weights = [weight_relevance |-> 40, weight_uniqueness |-> 35,
                          weight_reconstructability |-> 25]

Init == InitWith(StartCapacities)

\* -------------------------------------------------------------- handlers
\* IngestData.handleSubmit: one row of archive_items, with the valuation and
\* the semantic score of calculateSemanticScore
handleSubmit(sizeKb, v) ==
  /\ Len(archive_items) < MaxItems
  /\ archive_items' = Append(archive_items,
       [id |-> Len(archive_items) + 1, size_kb |-> sizeKb,
        current_size_kb |-> sizeKb, stage |-> "FULL",
        val_relevance |-> v.relevance, val_uniqueness |-> v.uniqueness,
        val_reconstructability |-> v.reconstructability,
        semantic_score |-> calculateSemanticScore(v)])
  /\ UNCHANGED others
  /\ UNCHANGED <<settings, isRunning, db_settings, decay_events,
                 degradation_logs, alerts, cycles, started>>

\* the update of is_running is built but never awaited, so it is not sent
startSimulation ==
  /\ ~isRunning
  /\ isRunning' = TRUE
  /\ UNCHANGED others
  /\ UNCHANGED <<settings, db_settings, archive_items, decay_events,
                 degradation_logs, alerts, cycles, started>>

pauseSimulation ==
  /\ isRunning
  /\ isRunning' = FALSE
  /\ UNCHANGED others
  /\ UNCHANGED <<settings, db_settings, archive_items, decay_events,
                 degradation_logs, alerts, cycles, started>>

SimulationCompleteLate(s) == s.current_year > total_years

\* if (newYear > settings.total_years)
SimulationComplete(s) == s.current_year + decay_interval_years > total_years

\* processDecayEvent up to its first await.  It reads the settings of the
\* render that created it; past total_years it only stops the simulation.
\* At most cycleCap calls are in flight.
processDecayEvent(cycleCap) ==
  LET newYear == settings.current_year + decay_interval_years
      id == started + 1
  IN  IF SimulationComplete(settings)
      THEN /\ isRunning' = FALSE
           /\ db_settings' = [db_settings EXCEPT !.is_running = FALSE]
           /\ UNCHANGED <<reset, stepIgnored, baseline_results, comparison,
                          weights, valuation_weights>>
           /\ UNCHANGED <<settings, archive_items, decay_events,
                          degradation_logs, alerts, cycles, started>>
      ELSE /\ Cardinality(DOMAIN cycles) < cycleCap
           /\ started' = id
           /\ cycles' = [k \in DOMAIN cycles \cup {id} |->
                IF k = id
                THEN [pc |-> "select", newYear |-> newYear,
                      capacityBefore |-> settings.current_capacity_kb,
                      capacityAfter |-> CapacityAfter(settings),
                      eventNo |-> newYear \div decay_interval_years,
                      items |-> <<>>, storageBefore |-> 0, decayEvent |-> 0,
                      itemsAffected |-> 0, currentStorage |-> 0, idx |-> 0]
                ELSE cycles[k]]
           /\ UNCHANGED <<reset, stepIgnored, baseline_results, comparison,
                          weights, valuation_weights>>
           /\ UNCHANGED <<settings, isRunning, db_settings, archive_items,
                          decay_events, degradation_logs, alerts>>

\* the select of the non-DELETED items, ordered by semantic_score
selectItems(id) ==
  /\ id \in DOMAIN cycles
  /\ cycles[id].pc = "select"
  /\ LET ids == { i \in 1..Len(archive_items) :
                    archive_items[i].stage # "DELETED" }
     IN  \E o \in Orders(ids) :
           LET rows == [j \in 1..Cardinality(ids) |->
                         [id |-> o[j],
                          current_size_kb |-> archive_items[o[j]].current_size_kb,
                          stage |-> archive_items[o[j]].stage,
                          semantic_score |-> archive_items[o[j]].semantic_score]]
           IN  /\ SortedAscending(rows)
               /\ cycles' = [cycles EXCEPT ![id] =
                    [@ EXCEPT !.pc = "insert_event", !.items = rows,
                              !.storageBefore = SumSizes(rows)]]
  /\ UNCHANGED others
  /\ UNCHANGED <<settings, isRunning, db_settings, archive_items,
                 decay_events, degradation_logs, alerts, started>>

\* the insert of the decay event, whose generated uuid the identity of the
\* call stands for, then the code up to the first update
insertDecayEvent(id) ==
  /\ id \in DOMAIN cycles
  /\ cycles[id].pc = "insert_event"
  /\ LET c == cycles[id]
         row == [event_no |-> c.eventNo, simulated_year |-> c.newYear,
                 capacity_before_kb |-> c.capacityBefore,
                 capacity_after_kb |-> c.capacityAfter,
                 storage_before_kb |-> c.storageBefore,
                 storage_after_kb |-> c.storageBefore,
                 items_affected |-> 0]
         c1 == [c EXCEPT !.decayEvent = id, !.itemsAffected = 0,
                         !.currentStorage = c.storageBefore, !.idx = 1]
         new == IF c1.currentStorage > c1.capacityAfter
                THEN PressureAlerts(c1) \o IterateAlerts(c1) ELSE <<>>
     IN  /\ decay_events' = [k \in DOMAIN decay_events \cup {id} |->
                                IF k = id THEN row ELSE decay_events[k]]
         /\ cycles' = [cycles EXCEPT ![id] = Iterate(c1)]
         /\ alerts' = AddAlerts(alerts, new, id)
  /\ UNCHANGED others
  /\ UNCHANGED <<settings, isRunning, db_settings, archive_items,
                 degradation_logs, started>>

\* the update of the item's row, with the stage and size computed from the
\* row as this call read it
updateItem(id) ==
  /\ id \in DOMAIN cycles
  /\ cycles[id].pc = "update_item"
  /\ LET c == cycles[id]
         item == c.items[c.idx]
     IN  /\ archive_items' =
               IF Allowed("archive_items", "update")
               THEN [archive_items EXCEPT
                       ![item.id].stage = NextStage(item.stage),
                       ![item.id].current_size_kb =
                           NewSize(item.stage, item.current_size_kb)]
               ELSE archive_items
         /\ cycles' = [cycles EXCEPT ![id].pc = "insert_log"]
  /\ UNCHANGED others
  /\ UNCHANGED <<settings, isRunning, db_settings, decay_events,
                 degradation_logs, alerts, started>>

\* the insert of the degradation log, the bookkeeping of the iteration and
\* the code of the next iteration up to its update
insertLog(id) ==
  /\ id \in DOMAIN cycles
  /\ cycles[id].pc = "insert_log"
  /\ LET c == cycles[id]
         item == c.items[c.idx]
         newSize == NewSize(item.stage, item.current_size_kb)
         row == [decay_event_id |-> c.decayEvent, item_id |-> item.id,
                 prev_stage |-> item.stage,
                 new_stage |-> NextStage(item.stage),
                 semantic_score |-> item.semantic_score,
                 size_before_kb |-> item.current_size_kb,
                 size_after_kb |-> newSize]
         c1 == [c EXCEPT !.currentStorage = @ - (item.current_size_kb - newSize),
                         !.itemsAffected = @ + 1,
                         !.idx = NextIndex(c)]
     IN  /\ degradation_logs' =
               IF Allowed("degradation_logs", "insert")
               THEN degradation_logs \cup {row} ELSE degradation_logs
         /\ cycles' = [cycles EXCEPT ![id] = Iterate(c1)]
         /\ alerts' = AddAlerts(alerts, IterateAlerts(c1), id)
  /\ UNCHANGED others
  /\ UNCHANGED <<settings, isRunning, db_settings, archive_items,
                 decay_events, started>>

\* the update of the decay event with the final storage and count
updateDecayEvent(id) ==
  /\ id \in DOMAIN cycles
  /\ cycles[id].pc = "update_event"
  /\ LET c == cycles[id]
     IN  decay_events' =
           IF Allowed("decay_events", "update")
           THEN [decay_events EXCEPT
                   ![c.decayEvent].storage_after_kb = c.currentStorage,
                   ![c.decayEvent].items_affected = c.itemsAffected]
           ELSE decay_events
  /\ cycles' = [cycles EXCEPT ![id].pc = "update_settings"]
  /\ UNCHANGED others
  /\ UNCHANGED <<settings, isRunning, db_settings, archive_items,
                 degradation_logs, alerts, started>>

updateSettingsYearOnly(id) ==
  /\ id \in DOMAIN cycles
  /\ cycles[id].pc = "update_settings"
  /\ db_settings' = [db_settings EXCEPT !.current_year = cycles[id].newYear]
  /\ settings' = [settings EXCEPT !.current_year = cycles[id].newYear]
  /\ cycles' = [k \in DOMAIN cycles \ {id} |-> cycles[k]]
  /\ UNCHANGED others
  /\ UNCHANGED <<isRunning, archive_items, decay_events, degradation_logs,
                 alerts, started>>

\* the update of simulation_settings and setSettings; the call ends
updateSettings(id) ==
  /\ id \in DOMAIN cycles
  /\ cycles[id].pc = "update_settings"
  /\ LET c == cycles[id]
     IN  /\ db_settings' =
               IF Allowed("simulation_settings", "update")
               THEN [db_settings EXCEPT !.current_year = c.newYear,
                                        !.current_capacity_kb = c.capacityAfter]
               ELSE db_settings
         /\ settings' = [settings EXCEPT !.current_year = c.newYear,
                                         !.current_capacity_kb = c.capacityAfter]
  /\ cycles' = [k \in DOMAIN cycles \ {id} |-> cycles[k]]
  /\ UNCHANGED others
  /\ UNCHANGED <<isRunning, archive_items, decay_events, degradation_logs,
                 alerts, started>>

\* ------------------------------------------------------ resetSimulation
\* the Reset button, disabled while isRunning, calls resetSimulation, which
\* runs up to its first await; one call is followed at a time
resetSimulation ==
  /\ ~isRunning
  /\ reset.pc = "idle"
  /\ reset' = [pc |-> "update_settings", items |-> <<>>, idx |-> 0]
  /\ UNCHANGED <<settings, isRunning, db_settings, archive_items,
                 decay_events, degradation_logs, alerts, cycles, started,
                 stepIgnored, caller, baseline_results, comparison>>
  /\ UNCHANGED <<weights, valuation_weights>>

\* the update of simulation_settings to year 0 and the start capacity
resetSettings ==
  /\ reset.pc = "update_settings"
  /\ db_settings' =
        IF Allowed("simulation_settings", "update")
        THEN [db_settings EXCEPT !.current_year = 0,
                !.current_capacity_kb = settings.start_capacity_kb,
                !.is_running = FALSE]
        ELSE db_settings
  /\ reset' = [reset EXCEPT !.pc = "select"]
  /\ UNCHANGED <<settings, isRunning, archive_items, decay_events,
                 degradation_logs, alerts, cycles, started, stepIgnored,
                 caller, baseline_results, comparison>>
  /\ UNCHANGED <<weights, valuation_weights>>

ResetIdsNotDeleted ==
  { i \in 1..Len(archive_items) : archive_items[i].stage # "DELETED" }

\* .from('archive_items').select('id, size_kb').eq('owner_id', user.id):
\* every item of the owner, DELETED ones included
ResetIds == 1..Len(archive_items)

\* the select of id and size_kb of the items, in the order of the store
resetSelect ==
  /\ reset.pc = "select"
  /\ \E o \in Orders(ResetIds) :
        LET rows == [j \in 1..Cardinality(ResetIds) |->
                      [id |-> o[j], size_kb |-> archive_items[o[j]].size_kb]]
        IN  reset' = [pc |-> IF rows = <<>> THEN "delete_events"
                             ELSE "update_item",
                      items |-> rows, idx |-> 1]
  /\ UNCHANGED <<settings, isRunning, db_settings, archive_items,
                 decay_events, degradation_logs, alerts, cycles, started,
                 stepIgnored, caller, baseline_results, comparison>>
  /\ UNCHANGED <<weights, valuation_weights>>

\* the update of one item to FULL and the size_kb that was read
resetItem ==
  /\ reset.pc = "update_item"
  /\ LET item == reset.items[reset.idx]
     IN  archive_items' =
           IF Allowed("archive_items", "update")
           THEN [archive_items EXCEPT ![item.id].stage = "FULL",
                                      ![item.id].current_size_kb = item.size_kb]
           ELSE archive_items
  /\ reset' = [reset EXCEPT !.idx = @ + 1,
                            !.pc = IF reset.idx = Len(reset.items)
                                   THEN "delete_events" ELSE "update_item"]
  /\ UNCHANGED <<settings, isRunning, db_settings, decay_events,
                 degradation_logs, alerts, cycles, started, stepIgnored,
                 caller, baseline_results, comparison>>
  /\ UNCHANGED <<weights, valuation_weights>>

\* the delete of the decay events of the owner
resetDeleteEvents ==
  /\ reset.pc = "delete_events"
  /\ decay_events' = IF Allowed("decay_events", "delete")
                     THEN [k \in {} |-> 0] ELSE decay_events
  /\ reset' = [reset EXCEPT !.pc = "delete_logs"]
  /\ UNCHANGED <<settings, isRunning, db_settings, archive_items,
                 degradation_logs, alerts, cycles, started, stepIgnored,
                 caller, baseline_results, comparison>>
  /\ UNCHANGED <<weights, valuation_weights>>

\* the delete of the degradation logs of the owner
resetDeleteLogs ==
  /\ reset.pc = "delete_logs"
  /\ degradation_logs' = IF Allowed("degradation_logs", "delete")
                         THEN {} ELSE degradation_logs
  /\ reset' = [reset EXCEPT !.pc = "delete_baselines"]
  /\ UNCHANGED <<settings, isRunning, db_settings, archive_items,
                 decay_events, alerts, cycles, started, stepIgnored,
                 caller, baseline_results, comparison>>
  /\ UNCHANGED <<weights, valuation_weights>>

\* the delete of the baseline results of the owner, then setSettings and
\* setIsRunning(false); the call ends
resetDeleteBaselines ==
  /\ reset.pc = "delete_baselines"
  /\ baseline_results' = IF Allowed("baseline_results", "delete")
                         THEN {} ELSE baseline_results
  /\ settings' = [settings EXCEPT !.current_year = 0,
                     !.current_capacity_kb = settings.start_capacity_kb]
  /\ isRunning' = FALSE
  /\ reset' = [pc |-> "idle", items |-> <<>>, idx |-> 0]
  /\ UNCHANGED <<db_settings, archive_items, decay_events, degradation_logs,
                 alerts, cycles, started, stepIgnored, caller, comparison>>
  /\ UNCHANGED <<weights, valuation_weights>>

\* a click on the Step button while it is disabled reaches no handler
stepWhileRunning ==
  /\ isRunning
  /\ stepIgnored' = TRUE
  /\ UNCHANGED <<settings, isRunning, db_settings, archive_items,
                 decay_events, degradation_logs, alerts, cycles, started,
                 reset, caller, baseline_results, comparison>>
  /\ UNCHANGED <<weights, valuation_weights>>

\* the callback of setInterval, which exists while isRunning
autoTick ==
  /\ isRunning /\ started < MaxStarts
  /\ processDecayEvent(MaxCycles)
  /\ UNCHANGED caller

\* the Step button, disabled while isRunning, calls stepNextDecay
stepNextDecay ==
  /\ ~isRunning /\ started < MaxStarts
  /\ processDecayEvent(MaxCycles)
  /\ UNCHANGED caller

Ingest ==
  \E sizeKb \in Sizes, v \in Valuations : handleSubmit(sizeKb, v)

\* every interleaving of at most MaxStarts calls of processDecayEvent, at
\* most MaxCycles of them in flight at once
Next ==
  \/ Ingest
  \/ startSimulation
  \/ pauseSimulation
  \/ autoTick
  \/ stepNextDecay
  \/ \E id \in DOMAIN cycles : selectItems(id)
  \/ \E id \in DOMAIN cycles : insertDecayEvent(id)
  \/ \E id \in DOMAIN cycles : updateItem(id)
  \/ \E id \in DOMAIN cycles : insertLog(id)
  \/ \E id \in DOMAIN cycles : updateDecayEvent(id)
  \/ \E id \in DOMAIN cycles : updateSettings(id)

Spec == Init /\ [][Next]_vars

\* the same handlers when the timer and the user leave every call the time
\* to end before the next one starts: the whole run of the simulation
autoTickSerial == isRunning /\ processDecayEvent(1) /\ UNCHANGED caller

stepNextDecaySerial == ~isRunning /\ processDecayEvent(1) /\ UNCHANGED caller

\* the archive is filled before the simulation is run
IngestBeforeRun == started = 0 /\ Ingest

NextSerial ==
  \/ IngestBeforeRun
  \/ startSimulation
  \/ pauseSimulation
  \/ autoTickSerial
  \/ stepNextDecaySerial
  \/ \E id \in DOMAIN cycles : selectItems(id)
  \/ \E id \in DOMAIN cycles : insertDecayEvent(id)
  \/ \E id \in DOMAIN cycles : updateItem(id)
  \/ \E id \in DOMAIN cycles : insertLog(id)
  \/ \E id \in DOMAIN cycles : updateDecayEvent(id)
  \/ \E id \in DOMAIN cycles : updateSettings(id)

SpecSerial == Init /\ [][NextSerial]_vars

\* the Start, Pause and Step buttons and the timer, when every call of
\* processDecayEvent ends before the next one starts; the caller of each
\* call is recorded
TimerExistsAlways == TRUE

\* the effect creates the interval when isRunning and clears it when
\* isRunning changes
TimerExists == isRunning

autoTickButtons ==
  /\ TimerExists /\ started < MaxStarts
  /\ processDecayEvent(1)
  /\ caller' = "interval"

StepEnabledAlways == TRUE

\* disabled={isRunning} of the Step button
StepEnabled == ~isRunning

stepNextDecayButtons ==
  /\ StepEnabled /\ started < MaxStarts
  /\ processDecayEvent(1)
  /\ caller' = "stepNextDecay"

NextButtons ==
  \/ IngestBeforeRun
  \/ startSimulation
  \/ pauseSimulation
  \/ stepWhileRunning
  \/ autoTickButtons
  \/ stepNextDecayButtons
  \/ \E id \in DOMAIN cycles : selectItems(id)
  \/ \E id \in DOMAIN cycles : insertDecayEvent(id)
  \/ \E id \in DOMAIN cycles : updateItem(id)
  \/ \E id \in DOMAIN cycles : insertLog(id)
  \/ \E id \in DOMAIN cycles : updateDecayEvent(id)
  \/ \E id \in DOMAIN cycles : updateSettings(id)

SpecButtons == Init /\ [][NextButtons]_vars

\* the Start, Pause, Step and Reset buttons when no two asynchronous calls
\* overlap and the simulation is paused before the timer fires: a decay
\* cycle starts when no cycle and no reset is in flight, a reset when no
\* cycle is in flight
stepNextDecayAlone ==
  /\ ~isRunning /\ reset.pc = "idle" /\ started < MaxSerialStarts
  /\ processDecayEvent(1)
  /\ UNCHANGED caller

resetAlone == DOMAIN cycles = {} /\ resetSimulation

NextControls ==
  \/ IngestBeforeRun
  \/ startSimulation
  \/ pauseSimulation
  \/ stepNextDecayAlone
  \/ \E id \in DOMAIN cycles : selectItems(id)
  \/ \E id \in DOMAIN cycles : insertDecayEvent(id)
  \/ \E id \in DOMAIN cycles : updateItem(id)
  \/ \E id \in DOMAIN cycles : insertLog(id)
  \/ \E id \in DOMAIN cycles : updateDecayEvent(id)
  \/ \E id \in DOMAIN cycles : updateSettings(id)
  \/ resetAlone
  \/ resetSettings
  \/ resetSelect
  \/ resetItem
  \/ resetDeleteEvents
  \/ resetDeleteLogs
  \/ resetDeleteBaselines

SpecControls == Init /\ [][NextControls]_vars

\* the Step and Reset buttons of a paused simulation: a reset can start
\* while a decay cycle is in flight and a cycle while a reset is in flight
stepNextDecayOne ==
  /\ ~isRunning /\ started < MaxStarts
  /\ processDecayEvent(1)
  /\ UNCHANGED caller

NextReset ==
  \/ IngestBeforeRun
  \/ stepNextDecayOne
  \/ \E id \in DOMAIN cycles : selectItems(id)
  \/ \E id \in DOMAIN cycles : insertDecayEvent(id)
  \/ \E id \in DOMAIN cycles : updateItem(id)
  \/ \E id \in DOMAIN cycles : insertLog(id)
  \/ \E id \in DOMAIN cycles : updateDecayEvent(id)
  \/ \E id \in DOMAIN cycles : updateSettings(id)
  \/ resetSimulation
  \/ resetSettings
  \/ resetSelect
  \/ resetItem
  \/ resetDeleteEvents
  \/ resetDeleteLogs
  \/ resetDeleteBaselines

SpecReset == Init /\ [][NextReset]_vars

\* the Step button of a paused simulation late in a run: the first calls of
\* processDecayEvent end before the next one starts, the later ones overlap
stepNextDecayLate ==
  /\ ~isRunning /\ started < MaxSerialStarts + MaxCycles
  /\ processDecayEvent(IF started < MaxSerialStarts - 1 THEN 1 ELSE MaxCycles)
  /\ UNCHANGED caller

NextLate ==
  \/ IngestBeforeRun
  \/ stepNextDecayLate
  \/ \E id \in DOMAIN cycles : selectItems(id)
  \/ \E id \in DOMAIN cycles : insertDecayEvent(id)
  \/ \E id \in DOMAIN cycles : updateItem(id)
  \/ \E id \in DOMAIN cycles : insertLog(id)
  \/ \E id \in DOMAIN cycles : updateDecayEvent(id)
  \/ \E id \in DOMAIN cycles : updateSettings(id)

SpecLate == Init /\ [][NextLate]_vars

\* ------------------------------------------------------ failed requests
\* A request that fails (the network, the database) does not throw: its
\* await resolves with { error }, which processDecayEvent never reads.  The
\* code after the await runs as after a request that succeeded.

\* the update of the item's row fails: the row is unchanged
updateItemFailed(id) ==
  /\ id \in DOMAIN cycles
  /\ cycles[id].pc = "update_item"
  /\ cycles' = [cycles EXCEPT ![id].pc = "insert_log"]
  /\ UNCHANGED others
  /\ UNCHANGED <<settings, isRunning, db_settings, archive_items,
                 decay_events, degradation_logs, alerts, started>>

\* the update of simulation_settings fails: the stored row is unchanged,
\* setSettings runs and the call ends
updateSettingsFailed(id) ==
  /\ id \in DOMAIN cycles
  /\ cycles[id].pc = "update_settings"
  /\ settings' = [settings EXCEPT
                    !.current_year = cycles[id].newYear,
                    !.current_capacity_kb = cycles[id].capacityAfter]
  /\ cycles' = [k \in DOMAIN cycles \ {id} |-> cycles[k]]
  /\ UNCHANGED others
  /\ UNCHANGED <<isRunning, db_settings, archive_items, decay_events,
                 degradation_logs, alerts, started>>

\* the Step button of a paused simulation, every call ending before the
\* next one starts, when requests can fail
NextFaults ==
  \/ IngestBeforeRun
  \/ stepNextDecayAlone
  \/ \E id \in DOMAIN cycles : selectItems(id)
  \/ \E id \in DOMAIN cycles : insertDecayEvent(id)
  \/ \E id \in DOMAIN cycles : updateItem(id)
  \/ \E id \in DOMAIN cycles : updateItemFailed(id)
  \/ \E id \in DOMAIN cycles : insertLog(id)
  \/ \E id \in DOMAIN cycles : updateDecayEvent(id)
  \/ \E id \in DOMAIN cycles : updateSettings(id)
  \/ \E id \in DOMAIN cycles : updateSettingsFailed(id)

SpecFaults == Init /\ [][NextFaults]_vars

\* ------------------------------------------------------- Settings page
\* onValueChange of a slider: setWeights({ ...weights, [field]: v / 100 })
setWeights(field, v) ==
  /\ weights' = [weights EXCEPT ![field] = FromSlider(v)]
  /\ UNCHANGED <<settings, isRunning, db_settings, archive_items,
                 decay_events, degradation_logs, alerts, cycles, started>>
  /\ UNCHANGED <<reset, stepIgnored, caller, baseline_results, comparison,
                 valuation_weights>>

\* handleSaveWeights: the update of valuation_weights with the normalized
\* weights.  An update never fails for want of a row, so the insert of the
\* error branch is not sent.
handleSaveWeights ==
  /\ valuation_weights' =
        IF Allowed("valuation_weights", "update")
        THEN StoredWeights(Normalize(weights)) ELSE valuation_weights
  /\ UNCHANGED <<settings, isRunning, db_settings, archive_items,
                 decay_events, degradation_logs, alerts, cycles, started>>
  /\ UNCHANGED <<reset, stepIgnored, caller, baseline_results, comparison,
                 weights>>

moveSlider ==
  \E field \in WeightFields, v \in SliderPositions : setWeights(field, v)

\* one visit of the Settings page
NextSettings ==
  \/ moveSlider
  \/ handleSaveWeights

SpecSettings == Init /\ [][NextSettings]_vars

\* the owner sets and saves the weights, then fills the archive, then steps
\* through the simulation, every call ending before the next one starts
moveSliderFirst ==
  /\ archive_items = <<>> /\ started = 0
  /\ \E field \in WeightFields, v \in ReorderPositions : setWeights(field, v)

handleSaveWeightsFirst ==
  archive_items = <<>> /\ started = 0 /\ handleSaveWeights

IngestReorder ==
  started = 0 /\ \E v \in ReorderValuations : handleSubmit(1000, v)

NextWeights ==
  \/ moveSliderFirst
  \/ handleSaveWeightsFirst
  \/ IngestReorder
  \/ stepNextDecayAlone
  \/ \E id \in DOMAIN cycles : selectItems(id)
  \/ \E id \in DOMAIN cycles : insertDecayEvent(id)
  \/ \E id \in DOMAIN cycles : updateItem(id)
  \/ \E id \in DOMAIN cycles : insertLog(id)
  \/ \E id \in DOMAIN cycles : updateDecayEvent(id)
  \/ \E id \in DOMAIN cycles : updateSettings(id)

SpecWeights == Init /\ [][NextWeights]_vars

\* ------------------------------------------------- an exhausted capacity
\* the Step button on an archive of small items whose settings row leaves
\* no capacity after the first decay
InitExhausted == InitWith(ExhaustedCapacities)

IngestSmall ==
  started = 0
  /\ \E sizeKb \in SmallSizes, v \in Valuations : handleSubmit(sizeKb, v)

NextExhausted ==
  \/ IngestSmall
  \/ stepNextDecayAlone
  \/ \E id \in DOMAIN cycles : selectItems(id)
  \/ \E id \in DOMAIN cycles : insertDecayEvent(id)
  \/ \E id \in DOMAIN cycles : updateItem(id)
  \/ \E id \in DOMAIN cycles : insertLog(id)
  \/ \E id \in DOMAIN cycles : updateDecayEvent(id)
  \/ \E id \in DOMAIN cycles : updateSettings(id)

SpecExhausted == InitExhausted /\ [][NextExhausted]_vars

\* ------------------------------------------------------- runComparison
Strategies == {"TEAS", "TIME_BASED", "RANDOM"}

\* for (let year = 0; year <= 60; year += 10)
ComparisonYears == {0, 10, 20, 30, 40, 50, 60}

\* Math.floor(year / 2)
DecayEventsOfYear(year) == year \div 2

\* Math.pow(0.95, decayEvents) in millionths, rounded down, for the values
\* of decayEvents that the comparison years give
Pow095(decayEvents) ==
  CASE decayEvents = 0 -> 1000000
    [] decayEvents = 5 -> 773780
    [] decayEvents = 10 -> 598736
    [] decayEvents = 15 -> 463291
    [] decayEvents = 20 -> 358485
    [] decayEvents = 25 -> 277389
    [] decayEvents = 30 -> 214638

SurvivingCountRounded(totalItems, year) ==
  (totalItems * Pow095(DecayEventsOfYear(year)) + 500000) \div 1000000

\* the length of .slice(0, Math.floor(totalItems * capacityRemaining)) of
\* the totalItems items; exact for fewer than 395 items
SurvivingCount(totalItems, year) ==
  (totalItems * Pow095(DecayEventsOfYear(year))) \div 1000000

\* r.strategy === 'TEAS' ? 15 : r.strategy === 'TIME_BASED' ? 5 : 0
StrategicBonus(strategy) ==
  CASE strategy = "TEAS" -> 15
    [] strategy = "TIME_BASED" -> 5
    [] OTHER -> 0

\* r.strategy === 'TEAS' ? 10 : 0
ReconstructionBonus(strategy) == IF strategy = "TEAS" THEN 10 ELSE 0

\* Math.random() in hundredths
Jitters == {0, 50, 99}

\* the draws of Math.random() of one call, one per strategy
JitterOutcomes == [Strategies -> Jitters]

\* Math.round((ratio * weight + Math.random() * spread + bonus) * 10) / 10
\* in tenths, for ratio = itemsRemaining / totalItems and the draw jitter
Metric(itemsRemaining, totalItems, weight, spread, jitter, bonus) ==
  LET num == 100 * weight * itemsRemaining + spread * jitter * totalItems
               + 100 * bonus * totalItems
      den == 100 * totalItems
  IN  (20 * num + den) \div (2 * den)

\* one element of insertData; total_size_kb is not carried
BaselineRow(run, year, strategy, totalItems, jitter) ==
  LET itemsRemaining == SurvivingCount(totalItems, year)
  IN  [run |-> run, simulation_year |-> year, strategy |-> strategy,
       knowledge_coverage |->
         Metric(itemsRemaining, totalItems, 100, 0, 0, StrategicBonus(strategy)),
       semantic_diversity |->
         Metric(itemsRemaining, totalItems, 80, 20, jitter,
                StrategicBonus(strategy)),
       retrieval_quality |->
         Metric(itemsRemaining, totalItems, 85, 15, jitter,
                StrategicBonus(strategy)),
       reconstruction_quality |->
         Metric(itemsRemaining, totalItems, 70, 30, jitter,
                ReconstructionBonus(strategy)),
       storage_efficiency |-> Metric(itemsRemaining, totalItems, 100, 0, 0, 0),
       items_remaining |-> itemsRemaining]

\* the Run Comparison button, disabled while loading, calls runComparison,
\* which runs up to its first await
runComparison ==
  /\ comparison.pc = "idle"
  /\ comparison.run < MaxRuns
  /\ comparison' = [pc |-> "delete", run |-> comparison.run + 1,
                    totalItems |-> 0]
  /\ UNCHANGED <<settings, isRunning, db_settings, archive_items,
                 decay_events, degradation_logs, alerts, cycles, started,
                 reset, stepIgnored, caller, baseline_results>>
  /\ UNCHANGED <<weights, valuation_weights>>

\* the delete of the previous results of the owner
comparisonDelete ==
  /\ comparison.pc = "delete"
  /\ baseline_results' = IF Allowed("baseline_results", "delete")
                         THEN {} ELSE baseline_results
  /\ comparison' = [comparison EXCEPT !.pc = "select"]
  /\ UNCHANGED <<settings, isRunning, db_settings, archive_items,
                 decay_events, degradation_logs, alerts, cycles, started,
                 reset, stepIgnored, caller>>
  /\ UNCHANGED <<weights, valuation_weights>>

\* the select of all the items of the owner; an empty archive ends the call
comparisonSelect ==
  /\ comparison.pc = "select"
  /\ comparison' = [comparison EXCEPT
                      !.pc = IF Len(archive_items) = 0 THEN "idle"
                             ELSE "insert",
                      !.totalItems = Len(archive_items)]
  /\ UNCHANGED <<settings, isRunning, db_settings, archive_items,
                 decay_events, degradation_logs, alerts, cycles, started,
                 reset, stepIgnored, caller, baseline_results>>
  /\ UNCHANGED <<weights, valuation_weights>>

\* the results of the seven years and three strategies, their metrics, and
\* the insert of the 21 rows; the call ends
comparisonInsert ==
  /\ comparison.pc = "insert"
  /\ \E jitter \in JitterOutcomes :
        baseline_results' =
          IF Allowed("baseline_results", "insert")
          THEN baseline_results \cup
                 { BaselineRow(comparison.run, year, strategy,
                               comparison.totalItems, jitter[strategy]) :
                     year \in ComparisonYears, strategy \in Strategies }
          ELSE baseline_results
  /\ comparison' = [comparison EXCEPT !.pc = "idle"]
  /\ UNCHANGED <<settings, isRunning, db_settings, archive_items,
                 decay_events, degradation_logs, alerts, cycles, started,
                 reset, stepIgnored, caller>>
  /\ UNCHANGED <<weights, valuation_weights>>

\* the Ingest and Baselines pages
NextBaselines ==
  \/ Ingest
  \/ runComparison
  \/ comparisonDelete
  \/ comparisonSelect
  \/ comparisonInsert

SpecBaselines == Init /\ [][NextBaselines]_vars

\* ================================================================ claims
ItemIds == 1..Len(archive_items)

InFlight == DOMAIN cycles

\* the call has read the items and inserted its decay event
PastInsert(c) == c.pc \notin {"select", "insert_event"}

\* C1: with no reset, no step moves the stage of an item backward in the
\* order FULL < COMPRESSED < SUMMARIZED < MINIMAL < DELETED, also when the
\* reads and writes of decay cycles overlap
StageNeverRegresses ==
  [][\A i \in ItemIds :
       StageRank(archive_items'[i].stage) >= StageRank(archive_items[i].stage)]_vars

\* C2: while a call of processDecayEvent runs, and when it ends, every item
\* it read is at most one stage beyond the stage it was read at and the call
\* has degraded no more items than it read, even when storage still exceeds
\* the new capacity at the end; one FULL item of 1000 KB under capacityAfter
\* 500 is at COMPRESSED / 700 KB after the first call
SinglePassCap ==
  /\ \A id \in InFlight :
       LET c == cycles[id]
       IN  /\ c.itemsAffected <= Len(c.items)
           /\ \A k \in 1..Len(c.items) :
                StageRank(archive_items[c.items[k].id].stage)
                  <= StageRank(c.items[k].stage) + 1
  /\ ( /\ settings.start_capacity_kb = 527
       /\ Len(archive_items) = 1
       /\ archive_items[1].size_kb = 1000
       /\ started = 1
       /\ \A id \in InFlight : cycles[id].pc = "update_settings" )
     => /\ archive_items[1].stage = "COMPRESSED"
        /\ archive_items[1].current_size_kb = 700

\* the call on the single 1000 KB item has ended its loop with the item at
\* COMPRESSED / 700 KB and 700 KB still above the capacity of 500 KB
SinglePassCapWitness ==
  /\ Len(archive_items) = 1
  /\ archive_items[1].stage = "COMPRESSED"
  /\ archive_items[1].current_size_kb = 700
  /\ \E id \in InFlight :
       /\ cycles[id].pc = "update_settings"
       /\ cycles[id].capacityAfter = 500
       /\ cycles[id].currentStorage = 700
       /\ cycles[id].itemsAffected = 1

\* C3: at most one decay cycle is in flight at any time
AtMostOneCycleInFlight == Cardinality(InFlight) <= 1

\* C4: at most one DecayEvent is recorded for each simulated year
OneDecayEventPerYear ==
  \A a, b \in DOMAIN decay_events :
     decay_events[a].simulated_year = decay_events[b].simulated_year => a = b

\* C5: a decay cycle degrades items in ascending semantic_score and stops as
\* soon as the running total is <= capacityAfter: the running total is above
\* capacityAfter when an item is processed, the loop ends before the last
\* item only with the total <= capacityAfter, and every item the cycle read
\* and left at its stage has a score >= that of every item it degraded
SelectionOrder ==
  \A id \in InFlight :
     LET c == cycles[id]
         degraded == { k \in 1..Len(c.items) :
                         archive_items[c.items[k].id].stage # c.items[k].stage }
         untouched == { k \in 1..Len(c.items) :
                          archive_items[c.items[k].id].stage = c.items[k].stage }
     IN  /\ c.pc \in {"update_item", "insert_log"}
              => c.currentStorage > c.capacityAfter
         /\ (c.pc \in {"update_event", "update_settings"} /\ c.idx <= Len(c.items))
              => c.currentStorage <= c.capacityAfter
         /\ \A j \in degraded, k \in untouched :
              archive_items[c.items[j].id].semantic_score
                <= archive_items[c.items[k].id].semantic_score

\* a cycle has ended its loop after degrading an item of lower score and
\* leaving an item of higher score untouched
SelectionOrderWitness ==
  \E id \in InFlight :
     LET c == cycles[id]
     IN  /\ c.pc = "update_settings"
         /\ c.itemsAffected > 0
         /\ c.idx <= Len(c.items)
         /\ \E j, k \in 1..Len(c.items) :
              /\ archive_items[c.items[j].id].stage # c.items[j].stage
              /\ archive_items[c.items[k].id].stage = c.items[k].stage
              /\ c.items[j].semantic_score < c.items[k].semantic_score

\* C6: a cycle that finds the non-DELETED sizes summing to <= capacityAfter
\* (the empty archive included) performs no transition: it never enters the
\* loop, every item keeps the stage and size it was read with, no
\* degradation log carries its decay event, and its decay event has
\* items_affected = 0 and storage_after_kb = storage_before_kb
NoPressureNoTransition ==
  \A id \in InFlight :
     LET c == cycles[id]
     IN  (PastInsert(c) /\ c.storageBefore <= c.capacityAfter)
         => /\ c.pc \in {"update_event", "update_settings"}
            /\ c.itemsAffected = 0
            /\ c.currentStorage = c.storageBefore
            /\ \A k \in 1..Len(c.items) :
                 /\ archive_items[c.items[k].id].stage = c.items[k].stage
                 /\ archive_items[c.items[k].id].current_size_kb
                      = c.items[k].current_size_kb
            /\ \A l \in degradation_logs : l.decay_event_id # c.decayEvent
            /\ decay_events[c.decayEvent].items_affected = 0
            /\ decay_events[c.decayEvent].storage_before_kb = c.storageBefore
            /\ decay_events[c.decayEvent].storage_after_kb = c.storageBefore

\* a cycle on a non-empty archive without pressure is about to end
NoPressureWitness ==
  \E id \in InFlight :
     /\ cycles[id].pc = "update_settings"
     /\ Len(cycles[id].items) > 0
     /\ cycles[id].storageBefore <= cycles[id].capacityAfter

\* the size the claim gives for a transition out of prevStage
ClaimedSize(prevStage, size) ==
  CASE prevStage = "FULL" -> (7 * size) \div 10
    [] prevStage = "COMPRESSED" -> (3 * size) \div 10
    [] prevStage = "SUMMARIZED" -> size \div 10
    [] OTHER -> 0

\* C7: every logged transition goes to the immediate successor stage and its
\* size_after is floor(0.7 x), floor(0.3 x), floor(0.1 x) of size_before, or 0
TransitionSizes ==
  \A l \in degradation_logs :
     /\ StageRank(l.new_stage) = StageRank(l.prev_stage) + 1
     /\ l.size_after_kb = ClaimedSize(l.prev_stage, l.size_before_kb)

\* C8: no step raises the current_size_kb of an item, and current_size_kb
\* never exceeds size_kb
SizeNeverGrows ==
  [][\A i \in ItemIds :
       /\ archive_items'[i].current_size_kb <= archive_items[i].current_size_kb
       /\ archive_items'[i].current_size_kb <= archive_items'[i].size_kb]_vars

RECURSIVE Compound(_, _)
\* k successive cuts floor(c x (1 - 5/100)), each applied to the result of
\* the one before
Compound(c, k) == IF k = 0 THEN c ELSE (Compound(c, k - 1) * 95) \div 100

\* C9: the capacity after the cycles that took effect is the start capacity
\* cut by floor(c x 0.95) once per cycle, each cut applied to the capacity
\* left by the one before; 1,000,000 KB becomes 950,000 KB after one cycle
CapacityCompounds ==
  /\ settings.current_capacity_kb =
       Compound(settings.start_capacity_kb,
                settings.current_year \div decay_interval_years)
  /\ db_settings.current_capacity_kb = settings.current_capacity_kb
  /\ (settings.start_capacity_kb = 1000000 /\ settings.current_year = 2)
       => settings.current_capacity_kb = 950000

\* two cycles took effect from 1,000,000 KB: 950,000 KB, then 902,500 KB
CapacityCompoundsWitness ==
  /\ settings.start_capacity_kb = 1000000
  /\ settings.current_year = 2 * decay_interval_years
  /\ settings.current_capacity_kb = 902500
  /\ Cardinality(DOMAIN decay_events) = 2

\* C10: from year 0 exactly total_years / decay_interval_years = 30 decay
\* cycles take effect, one per interval; once current_year is total_years
\* no step changes current_year, current_capacity_kb, an item, the decay
\* events or the degradation logs, and no cycle starts
ThirtyCyclesThenStop ==
  /\ [](/\ settings.current_year <= total_years
        /\ started <= 30
        /\ Cardinality(DOMAIN decay_events) <= started
        /\ InFlight = {} =>
             /\ Cardinality(DOMAIN decay_events) = started
             /\ settings.current_year = decay_interval_years * started
        /\ settings.current_year = total_years =>
             (InFlight = {} /\ started = 30))
  /\ [][settings.current_year = total_years
          => /\ UNCHANGED <<settings, archive_items, decay_events,
                            degradation_logs, cycles, started>>
             /\ db_settings'.current_year = db_settings.current_year
             /\ db_settings'.current_capacity_kb = db_settings.current_capacity_kb]_vars

\* the thirtieth cycle has taken effect and the simulation was stopped
ThirtyCyclesWitness ==
  /\ settings.current_year = total_years
  /\ Cardinality(DOMAIN decay_events) = 30
  /\ InFlight = {}
  /\ ~isRunning

\* ---------------------------------------------------------------------
\* every variable but stepIgnored
butStepIgnored ==
  <<settings, isRunning, db_settings, archive_items, decay_events,
    degradation_logs, alerts, cycles, started, reset, caller,
    baseline_results, comparison, weights, valuation_weights>>

\* C11: a manual step requested while isRunning is rejected and not queued:
\* a call of processDecayEvent made by stepNextDecay starts only while
\* isRunning is false, and a click on Step while isRunning changes nothing
StepRejectedWhileRunning ==
  [][/\ (started' # started /\ caller' = "stepNextDecay") => ~isRunning
     /\ stepIgnored' # stepIgnored
          => (isRunning /\ UNCHANGED butStepIgnored)]_vars

\* Step was clicked while the simulation runs and a cycle of the timer is
\* in flight; that cycle is the only one
StepRejectedWitness ==
  /\ stepIgnored
  /\ isRunning
  /\ caller = "interval"
  /\ Cardinality(InFlight) = 1
  /\ started = 1

\* the step at which a call of resetSimulation ends
ResetEnds == reset.pc = "delete_baselines" /\ reset'.pc = "idle"

\* C12: when resetSimulation ends, having run with no decay cycle in
\* flight, current_year is 0, current_capacity_kb is start_capacity_kb,
\* isRunning is false, and every item, DELETED ones included, is FULL with
\* current_size_kb = size_kb
ResetRestores ==
  [][ResetEnds =>
       /\ settings'.current_year = 0
       /\ settings'.current_capacity_kb = settings'.start_capacity_kb
       /\ db_settings'.current_year = 0
       /\ db_settings'.current_capacity_kb = settings'.start_capacity_kb
       /\ ~isRunning'
       /\ ~db_settings'.is_running
       /\ \A i \in 1..Len(archive_items') :
            /\ archive_items'[i].stage = "FULL"
            /\ archive_items'[i].current_size_kb = archive_items'[i].size_kb]_vars

\* a reset has ended after four decay cycles had taken an item to DELETED:
\* the item is FULL again with its original size, at year 0
ResetRestoresWitness ==
  /\ reset.pc = "idle"
  /\ InFlight = {}
  /\ settings.current_year = 0
  /\ Cardinality(DOMAIN decay_events) = 4
  /\ \E l \in degradation_logs :
       /\ l.new_stage = "DELETED"
       /\ archive_items[l.item_id].stage = "FULL"
       /\ archive_items[l.item_id].current_size_kb
            = archive_items[l.item_id].size_kb

\* C13: when resetSimulation ends no decay event, degradation log or
\* baseline result of the owner remains
ResetClearsHistory ==
  [][ResetEnds =>
       /\ DOMAIN decay_events' = {}
       /\ degradation_logs' = {}
       /\ baseline_results' = {}]_vars

\* C14: resetSimulation waits for the decay cycle in flight: a reset
\* starts only when no decay cycle is in flight, and when it has ended with
\* no cycle in flight the stored and the displayed simulation agree on the
\* reset year and capacity
ResetWaitsForCycle ==
  /\ [][(reset.pc = "idle" /\ reset'.pc # "idle") => InFlight = {}]_vars
  /\ [](reset.pc = "idle" /\ InFlight = {}
          => /\ db_settings.current_year = settings.current_year
             /\ db_settings.current_capacity_kb = settings.current_capacity_kb)

\* C15: pauseSimulation sets isRunning to false and changes nothing else:
\* the step that turns isRunning off leaves the settings, the items, the
\* decay events, the logs and the cycles in flight as they are, so a cycle
\* in progress goes on; and a call of processDecayEvent made by the timer
\* starts only while isRunning
PauseOnlyStops ==
  [][/\ (isRunning /\ ~isRunning')
          => UNCHANGED <<settings, db_settings, archive_items, decay_events,
                         degradation_logs, alerts, cycles, started, reset,
                         baseline_results, comparison>>
     /\ (started' # started /\ caller' = "interval") => isRunning]_vars

\* the simulation was paused while a cycle of the timer was in flight; the
\* cycle is at its last request
PauseOnlyStopsWitness ==
  /\ ~isRunning
  /\ caller = "interval"
  /\ started = 1
  /\ \E id \in InFlight : cycles[id].pc = "update_settings"

\* the order of the claim: ascending semantic_score, then ascending
\* current_size_kb, then ascending id
Before(a, b) ==
  \/ a.semantic_score < b.semantic_score
  \/ /\ a.semantic_score = b.semantic_score
     /\ \/ a.current_size_kb < b.current_size_kb
        \/ a.current_size_kb = b.current_size_kb /\ a.id < b.id

\* C16: the order in which a cycle degrades the items it read is fixed by
\* their scores, sizes and ids: ascending semantic_score, ties by ascending
\* current_size_kb and then by id, whatever order the store returned; an
\* item is degraded only after the items that come before it in that order
DeterministicOrder ==
  \A id \in InFlight :
     LET c == cycles[id]
     IN  \A j, k \in 1..Len(c.items) :
            (j < k /\ k = c.idx /\ c.pc \in {"update_item", "insert_log"})
              => Before(c.items[j], c.items[k])

\* C17: once an item is DELETED no decay cycle modifies it again: until a
\* reset restores it its stage stays DELETED and its current_size_kb stays 0
DeletedIsTerminal ==
  [][\A i \in ItemIds :
       (archive_items[i].stage = "DELETED" /\ reset.pc # "update_item")
         => /\ archive_items'[i].stage = "DELETED"
            /\ archive_items'[i].current_size_kb = 0]_vars

\* C18: current_year never exceeds total_years and changes only by
\* +decay_interval_years, and current_capacity_kb never increases, except
\* at the end of a reset
YearAndCapacityMonotone ==
  /\ [](settings.current_year <= total_years)
  /\ [][~ResetEnds =>
          /\ \/ settings'.current_year = settings.current_year
             \/ settings'.current_year
                  = settings.current_year + decay_interval_years
          /\ settings'.current_capacity_kb <= settings.current_capacity_kb]_vars

RECURSIVE Cut(_, _)
\* 0.95^k in units of 10^-7, by k successive cuts of 5%
Cut(r, k) == IF k = 0 THEN r ELSE Cut((r * 95) \div 100, k - 1)

\* floor(totalItems x 0.95^floor(year/2))
ClaimedRemaining(totalItems, year) ==
  (totalItems * Cut(10000000, year \div 2)) \div 10000000

\* C19: on a non-empty archive runComparison first clears the previous
\* results, so none is stored while it computes, and then writes one row
\* per year in {0,10,...,60} and strategy, 21 rows in all, of its own run
\* only, each with items_remaining = floor(totalItems x 0.95^floor(year/2)),
\* the same for the three strategies of a year
ComparisonRecomputed ==
  /\ comparison.pc \in {"select", "insert"} => baseline_results = {}
  /\ (comparison.pc = "idle" /\ comparison.totalItems > 0)
       => /\ Cardinality(baseline_results) = 21
          /\ \A year \in ComparisonYears, strategy \in Strategies :
               \E row \in baseline_results :
                  /\ row.simulation_year = year
                  /\ row.strategy = strategy
          /\ \A row \in baseline_results :
               /\ row.run = comparison.run
               /\ row.items_remaining
                    = ClaimedRemaining(comparison.totalItems,
                                       row.simulation_year)

\* a second comparison, on two items, has replaced the rows of the first:
\* 21 rows, 2 items remaining at year 0, 1 at year 10, none at year 60
ComparisonRecomputedWitness ==
  /\ comparison = [pc |-> "idle", run |-> 2, totalItems |-> 2]
  /\ Cardinality(baseline_results) = 21
  /\ \A row \in baseline_results :
       /\ row.run = 2
       /\ row.simulation_year = 0 => row.items_remaining = 2
       /\ row.simulation_year = 10 => row.items_remaining = 1
       /\ row.simulation_year = 60 => row.items_remaining = 0

\* the quality metrics of a row
QualityMetrics ==
  {"knowledge_coverage", "semantic_diversity", "retrieval_quality",
   "reconstruction_quality"}

\* C20: for every year each quality metric written by runComparison is
\* higher for TEAS than for TIME_BASED and higher for TIME_BASED than for
\* RANDOM, whatever the random draws
StrategyOrdering ==
  \A a, b, c \in baseline_results :
     ( /\ a.strategy = "TEAS" /\ b.strategy = "TIME_BASED"
       /\ c.strategy = "RANDOM"
       /\ a.simulation_year = b.simulation_year
       /\ b.simulation_year = c.simulation_year )
     => \A m \in QualityMetrics : a[m] > b[m] /\ b[m] > c[m]
\* the degradation logs of one decay event
LogsOf(id) == { l \in degradation_logs : l.decay_event_id = id }

RECURSIVE SumSaved(_)
\* the sum of size_before_kb - size_after_kb over a set of logs
SumSaved(logs) ==
  IF logs = {} THEN 0
  ELSE LET l == CHOOSE x \in logs : TRUE
       IN  (l.size_before_kb - l.size_after_kb) + SumSaved(logs \ {l})

\* C25: when a decay cycle has finished, the stored decay event of that
\* cycle holds storage_after_kb = storage_before_kb minus the sizes saved by
\* the cycle's transitions, and items_affected = the number of transitions
DecayEventTotals ==
  \A id \in DOMAIN decay_events \ DOMAIN cycles :
     /\ decay_events[id].storage_after_kb
          = decay_events[id].storage_before_kb - SumSaved(LogsOf(id))
     /\ decay_events[id].items_affected = Cardinality(LogsOf(id))

\* the storage_pressure alerts raised by one call
PressureAlertsOf(id) ==
  { a \in alerts : a.call = id /\ a.alert.alertType = "storage_pressure" }

\* C26: a decay cycle raises a storage_pressure alert if and only if
\* storageBefore / capacityAfter > 0.8; the alert is critical when the ratio
\* is above 1.0 and a warning when it is in (0.8, 1.0]
StoragePressureAlert ==
  \A id \in DOMAIN decay_events :
     LET e == decay_events[id]
     IN  /\ PressureAlertsOf(id) # {}
              <=> e.storage_before_kb * 100 > 80 * e.capacity_after_kb
         /\ \A a \in PressureAlertsOf(id) :
              a.alert.severity =
                 IF e.storage_before_kb > e.capacity_after_kb
                 THEN "critical" ELSE "warning"

\* the severity the claim gives to the alert of one transition
ClaimedSeverity(score, newStage) ==
  IF \/ score >= 70 /\ newStage = "DELETED"
     \/ score >= 80 /\ newStage # "DELETED"
  THEN "critical" ELSE "warning"

\* C27: the alert raised for a transition is critical if the score is >= 70
\* and the item becomes DELETED, or the score is >= 80 and the item is not
\* deleted, and a warning otherwise; the deletion of an item whose score is
\* 80 or more raises an alert that is critical and of type item_deleted
ItemAlertSeverity ==
  /\ \A a \in alerts :
       a.alert.alertType # "storage_pressure"
         => a.alert.severity
              = ClaimedSeverity(a.alert.semanticScore, a.alert.targetStage)
  /\ \A l \in degradation_logs :
       l.new_stage = "DELETED" /\ l.semantic_score >= 80
         => \E a \in alerts :
              /\ a.call = l.decay_event_id
              /\ a.alert.itemId = l.item_id
              /\ a.alert.severity = "critical"
              /\ a.alert.alertType = "item_deleted"

\* the sum of current_size_kb over the items that are not DELETED
RemainingStorage ==
  SumSizes(SelectSeq(archive_items, LAMBDA r : r.stage # "DELETED"))

\* the loop of the cycle is over
LoopOver(c) == c.pc \in {"update_event", "update_settings"}

\* every item the cycle selected is one stage further than it was selected
AllAdvanced(c) ==
  \A k \in 1..Len(c.items) :
     archive_items[c.items[k].id].stage = NextStage(c.items[k].stage)

\* C29: when the loop of a decay cycle that runs alone is over, either the
\* remaining storage is <= capacityAfter or every item that was not DELETED
\* when the cycle started has been advanced exactly one stage
PressureResolvedOrAllAdvanced ==
  \A id \in DOMAIN cycles :
     LoopOver(cycles[id])
       => \/ RemainingStorage <= cycles[id].capacityAfter
          \/ /\ AllAdvanced(cycles[id])
             /\ { cycles[id].items[k].id : k \in 1..Len(cycles[id].items) }
                  \cup { i \in ItemIds : archive_items[i].stage = "DELETED" }
                  = ItemIds

\* a cycle over two items ends with every item advanced and the pressure
\* still there
AllAdvancedWitness ==
  \E id \in DOMAIN cycles :
     /\ cycles[id].pc = "update_settings"
     /\ Len(cycles[id].items) = 2
     /\ AllAdvanced(cycles[id])
     /\ RemainingStorage > cycles[id].capacityAfter

\* C30: the decay events of cycles that run one at a time, in the order in
\* which they were recorded, form a chain: event_no = simulated_year /
\* decay_interval_years and counts 1, 2, ..., the first capacity_before_kb
\* is start_capacity_kb, every later capacity_before_kb is the
\* capacity_after_kb of the event before, and when no cycle is in flight the
\* last capacity_after_kb is current_capacity_kb
EventChain ==
  LET n == Cardinality(DOMAIN decay_events)
  IN  /\ DOMAIN decay_events = 1..n
      /\ \A k \in 1..n :
            /\ decay_events[k].event_no = k
            /\ decay_events[k].event_no * decay_interval_years
                 = decay_events[k].simulated_year
            /\ decay_events[k].capacity_before_kb =
                 IF k = 1 THEN settings.start_capacity_kb
                 ELSE decay_events[k - 1].capacity_after_kb
      /\ n >= 1 /\ DOMAIN cycles = {}
           => /\ decay_events[n].capacity_after_kb
                   = settings.current_capacity_kb
              /\ decay_events[n].capacity_after_kb
                   = db_settings.current_capacity_kb

\* three cycles have ended one after the other
EventChainWitness ==
  /\ Cardinality(DOMAIN decay_events) = 3
  /\ DOMAIN cycles = {}
  /\ settings.current_year = 3 * decay_interval_years

\* C23: a failed write of current_year / current_capacity_kb does not
\* advance the year and capacity of the displayed settings: they never run
\* ahead of the stored row
LocalNotAheadOfStored ==
  /\ settings.current_year <= db_settings.current_year
  /\ settings.current_capacity_kb >= db_settings.current_capacity_kb

\* the items among the first n the cycle selected whose stored stage is no
\* longer the stage they were selected with
Transitioned(c, n) ==
  { k \in 1..n : k <= Len(c.items)
                 /\ archive_items[c.items[k].id].stage # c.items[k].stage }

\* C24: an item whose update failed keeps its stage and size and is not
\* counted as transitioned: the count of the cycle is the number of items
\* whose stage it changed, and every log of the cycle is the log of a
\* transition the item made; the items after it are still attempted
FailedTransitionNotCounted ==
  \A id \in DOMAIN cycles :
     PastInsert(cycles[id])
       => /\ cycles[id].itemsAffected
               = Cardinality(Transitioned(cycles[id], cycles[id].idx - 1))
          /\ \A l \in LogsOf(id) :
               /\ archive_items[l.item_id].stage = l.new_stage
               /\ archive_items[l.item_id].current_size_kb = l.size_after_kb

\* the semantic score of item i under the stored weights w, times 100
WeightedScore(i, w) ==
  archive_items[i].val_relevance * w.weight_relevance
    + archive_items[i].val_uniqueness * w.weight_uniqueness
    + archive_items[i].val_reconstructability * w.weight_reconstructability

\* C21: a decay cycle that starts after the owner has saved weights degrades
\* the items in ascending order of relevance x wRelevance + uniqueness x
\* wUniqueness + reconstructability x wReconstructability, computed with
\* the saved, normalized weights
OrderedBySavedWeights ==
  \A id \in DOMAIN cycles :
     LET c == cycles[id]
     IN  c.pc # "select" /\ c.storageBefore > c.capacityAfter
           => \A j, k \in 1..Len(c.items) :
                 j < k => WeightedScore(c.items[j].id, valuation_weights)
                            <= WeightedScore(c.items[k].id, valuation_weights)

\* C22: the weights that handleSaveWeights computes from a positive triple
\* sum to 1, and normalizing them again leaves them unchanged
NormalizeIdempotent ==
  LET normalized == Normalize(weights)
  IN  /\ Total(normalized) = FromInt(1)
      /\ Normalize(normalized) = normalized

====
